---------------------------- MODULE Spec2Model ----------------------------
(***************************************************************************)
(* CompositePart (src/vs/workbench/browser/parts/compositePart.ts) as a    *)
(* state machine.                                                          *)
(*                                                                         *)
(* The part runs on one thread.  Its methods are synchronous, but three of *)
(* the calls they make hand control to code of the composite, which may    *)
(* call back into the part before it returns:                              *)
(*     compositeDescriptor.instantiate(..)   (createComposite, line 171)   *)
(*     composite.create(container)           (showComposite,   line 215)   *)
(*     composite.setVisible(true)            (showComposite,   line 267)   *)
(* A method is therefore a chain of atomic segments, one between each pair *)
(* of these calls.  `stack` holds the calls in flight, innermost last; the *)
(* innermost one is suspended in the call named by its pc.                 *)
(*                                                                         *)
(* Init is the part after its constructor and after Part.create has built  *)
(* the title area and the content area (titleLabel, toolBar, progressBar). *)
(***************************************************************************)
EXTENDS Integers, Sequences, FiniteSets, TLC

\* ------------------------------------------------------------------ bounds
\* Calls composites make back into the part while one outermost call runs.
MaxReentrant == 1
\* Composite instances the registry's factories hand out in one run.
MaxInstances == 2
\* Open tokens minted in one run (defaultGenerator.nextId() calls).
MaxTokens == 2
\* Entries of a value tree, at all its levels.
MaxEntries == 3
\* Names in a whitelist.
MaxWhitelist == 2
\* Entries of the data object of a telemetry event.
MaxData == 2
\* Appenders a combined appender wraps, and events logged through it.
MaxSinks == 2
MaxLogs == 2
\* Keybindings a keybinding-change notification carries.
MaxBindings == 1

\* -------------------------------------------------------------- the world
\* Ids with a descriptor in the registry, and one without.
Registered == {"a", "b"}
Unregistered == {"zz"}
AllIds == Registered \cup Unregistered

\* The constructor's defaultCompositeId parameter.
defaultCompositeId == "a"

\* storageService holds no value under activeCompositeSettingsKey.
NoValue == "<absent>"

\* A composite instance: the object a factory returned, told apart by the
\* order of its construction.  Null stands for null and undefined.
Null == [id |-> "<null>", n |-> 0]
Instances == [id : Registered, n : 1..MaxInstances]

\* What a composite has for its title area, the title of getTitle() and the
\* actions of getActions(): what it starts with and what it changes to.
InitialArea == "initial"
TitleAreas == {InitialArea, "changed"}

\* A title: compositeDescriptor.name is the title the composite starts with.
Title(id, area) == [id |-> id, area |-> area]
NoTitle == Title("", InitialArea)
descriptorName(id) == Title(id, InitialArea)

\* A Dimension; NoSize is the unset contentAreaSize field.
NoSize == [width |-> -1, height |-> -1]

\* The height Part.layoutContents takes off for the title row, in the units
\* of Heights.
TitleHeight == 1

\* What a finished call gave its caller.
Returned(c) == [kind |-> "value", composite |-> c]
Thrown == [kind |-> "throw", composite |-> Null]
NotReturned == [kind |-> "none", composite |-> Null]

VARIABLES
    activeComposite,                    \* Composite | null
    lastActiveCompositeId,              \* string
    instantiatedCompositeItems,         \* id -> the cached composite, or Null
    mapCompositeToCompositeContainer,   \* id -> its container (named by the composite it was built for), or Null
    mapActionsBindingToComposite,       \* id -> the binding collected for the id's composite, or Null
    currentCompositeOpenToken,          \* the token of the latest doOpenComposite (0: unset)
    contentAreaSize,                    \* Dimension, or NoSize
    storage,                            \* the value stored under activeCompositeSettingsKey, or NoValue
    lastId,                             \* defaultGenerator's counter
    titleLabel,                         \* the title the title row shows (NoTitle before any)
    toolBar,                            \* the binding the tool bar was last set by, or Null
    attached,                           \* the containers that are in the content area and shown
    visible,                            \* the composites last told setVisible(true)
    created,                            \* the composites whose create() was called
    disposed,                           \* the composites whose dispose() was called
    titleListeners,                     \* the composites whose onTitleAreaUpdate listener is live
    progressIndicators,                 \* the composites whose progress indicator the part has registered
    compositeSize,                      \* composite -> the Dimension of its last layout() call
    titleArea,                          \* composite -> what it has for its title area now
    instanceCount,                      \* instances the factories have made
    stack,                              \* the calls in flight
    lastReturn,                         \* the call that returned last
    reentrantCalls,                     \* calls made back into the part since the outermost call began
    trace,                              \* what the part did to its collaborators since the outermost call began
    tree,                               \* telemetryUtils: the value tree the flatten functions are given
    flatOut,                            \* telemetryUtils: the last flatten call and what it gave
    logData,                            \* telemetryUtils: the data object LogAppender.log is given
    logged,                             \* telemetryUtils: the last LogAppender.log call and what it gave
    sinks,                              \* telemetryUtils: the appenders a combinedAppender wraps
    sinkCalls,                          \* telemetryUtils: the calls the last combined log made, in order
    combined,                           \* telemetryUtils: the promise the combined dispose() returned
    published                           \* telemetryUtils: the last notification and the events published for it

partVars == <<activeComposite, lastActiveCompositeId, instantiatedCompositeItems,
              mapCompositeToCompositeContainer, mapActionsBindingToComposite,
              currentCompositeOpenToken, contentAreaSize, storage, lastId, titleLabel,
              toolBar, attached, visible, created, disposed, titleListeners,
              progressIndicators, compositeSize, titleArea, instanceCount, trace>>
\* The state of the telemetry utilities, which share nothing with the part.
telemetryVars == <<tree, flatOut, logData, logged, sinks, sinkCalls, combined, published>>
vars == <<partVars, stack, lastReturn, reentrantCalls, telemetryVars>>

\* The part and its collaborators as one value, so that a method is a function
\* from state to state and a sequence of statements is a composition.
Part ==
    [activeComposite |-> activeComposite,
     lastActiveCompositeId |-> lastActiveCompositeId,
     instantiatedCompositeItems |-> instantiatedCompositeItems,
     mapCompositeToCompositeContainer |-> mapCompositeToCompositeContainer,
     mapActionsBindingToComposite |-> mapActionsBindingToComposite,
     currentCompositeOpenToken |-> currentCompositeOpenToken,
     contentAreaSize |-> contentAreaSize,
     storage |-> storage,
     lastId |-> lastId,
     titleLabel |-> titleLabel,
     toolBar |-> toolBar,
     attached |-> attached,
     visible |-> visible,
     created |-> created,
     disposed |-> disposed,
     titleListeners |-> titleListeners,
     progressIndicators |-> progressIndicators,
     compositeSize |-> compositeSize,
     titleArea |-> titleArea,
     instanceCount |-> instanceCount,
     trace |-> trace]

Commit(s) ==
    /\ activeComposite' = s.activeComposite
    /\ lastActiveCompositeId' = s.lastActiveCompositeId
    /\ instantiatedCompositeItems' = s.instantiatedCompositeItems
    /\ mapCompositeToCompositeContainer' = s.mapCompositeToCompositeContainer
    /\ mapActionsBindingToComposite' = s.mapActionsBindingToComposite
    /\ currentCompositeOpenToken' = s.currentCompositeOpenToken
    /\ contentAreaSize' = s.contentAreaSize
    /\ storage' = s.storage
    /\ lastId' = s.lastId
    /\ titleLabel' = s.titleLabel
    /\ toolBar' = s.toolBar
    /\ attached' = s.attached
    /\ visible' = s.visible
    /\ created' = s.created
    /\ disposed' = s.disposed
    /\ titleListeners' = s.titleListeners
    /\ progressIndicators' = s.progressIndicators
    /\ compositeSize' = s.compositeSize
    /\ titleArea' = s.titleArea
    /\ instanceCount' = s.instanceCount
    /\ trace' = s.trace
    /\ UNCHANGED telemetryVars

\* One entry of the trace: a call the part made on a composite or a
\* notification it fired.
Ev(what, c) == [ev |-> what, c |-> c]
Log(s, what, c) == [s EXCEPT !.trace = Append(@, Ev(what, c))]


\* ------------------------------------------------------- calls in flight
\* A call in flight: openComposite (op "open") or createComposite called on
\* its own (op "create"), its arguments and locals, the call of the composite
\* it is suspended in (pc), and the calls that came back into the part from
\* there and have returned (nested).
Frame(op, id, focus) ==
    [op |-> op, id |-> id, focus |-> focus, token |-> 0, composite |-> Null,
     pc |-> "entry", nested |-> <<>>]

\* What running a call up to its next hand-over gives: the state, the frame,
\* and whether the call is now suspended ("wait"), returned or threw.
Wait(s, f, pc) == [s |-> s, f |-> [f EXCEPT !.pc = pc], status |-> "wait", value |-> Null]
Return(s, f, c) == [s |-> s, f |-> f, status |-> "return", value |-> c]
Throw(s, f) == [s |-> s, f |-> f, status |-> "throw", value |-> Null]

\* ----------------------------------------------------------- collaborators
\* defaultGenerator.nextId(): a value no earlier call returned.
nextId(s) == s.lastId + 1

\* storageService.get(key, WORKSPACE, fallback)
storageGet(store, fallback) == IF store = NoValue THEN fallback ELSE store

\* registry.getComposite(id): the descriptor, there or not.
getComposite(id) == id \in Registered

\* Part.layoutContents(width, height).contentSize: the title row's height
\* comes off the top.
layoutContents(width, height) ==
    [width |-> width,
     height |-> height - (IF height < TitleHeight THEN height ELSE TitleHeight)]

\* composite.focus()
compositeFocus(s, composite) == Log(s, "focus", composite)

\* ------------------------------------------------------------ the methods
\* composite.getTitle()
getTitle(s, composite) == Title(composite.id, s.titleArea[composite])

\* composite.getActions() and getSecondaryActions()
getActions(s, composite) == s.titleArea[composite]

\* updateTitle(compositeId, compositeTitle), lines 300-315: the title row
\* shows the title, or the descriptor's name when there is none.
updateTitle(s, compositeId, compositeTitle) ==
    IF ~getComposite(compositeId) THEN s
    ELSE [s EXCEPT !.titleLabel = IF compositeTitle = NoTitle
                                  THEN descriptorName(compositeId)
                                  ELSE compositeTitle]

\* collectCompositeActions(composite): the function that sets into the tool
\* bar the actions the composite gave when they were collected.
collectCompositeActions(s, composite) ==
    [composite |-> composite, actions |-> getActions(s, composite)]

\* hideActiveComposite that does not fire onDidCompositeClose (line 366).
hideActiveComposite_silent(s) ==
    IF s.activeComposite = Null THEN s
    ELSE LET composite == s.activeComposite
             s1 == [s EXCEPT !.activeComposite = Null]
             s2 == Log([s1 EXCEPT !.visible = @ \ {composite}], "setVisible(false)", composite)
             compositeContainer == s2.mapCompositeToCompositeContainer[composite.id]
             s3 == IF compositeContainer # Null
                   THEN [s2 EXCEPT !.attached = @ \ {compositeContainer}]
                   ELSE s2
             s4 == Log(s3, "progressBar.stop", composite)
         IN  [s4 EXCEPT !.toolBar = Null]

\* hideActiveComposite(), lines 342-369.
hideActiveComposite(s) ==
    IF s.activeComposite = Null THEN s
    ELSE LET composite == s.activeComposite
             s1 == [s EXCEPT !.activeComposite = Null]
             s2 == Log([s1 EXCEPT !.visible = @ \ {composite}], "setVisible(false)", composite)
             compositeContainer == s2.mapCompositeToCompositeContainer[composite.id]
             s3 == IF compositeContainer # Null
                   THEN [s2 EXCEPT !.attached = @ \ {compositeContainer}]
                   ELSE s2
             s4 == Log(s3, "progressBar.stop", composite)
             s5 == [s4 EXCEPT !.toolBar = Null]
         IN  Log(s5, "closed", composite)

\* doOpenComposite from line 148: after showComposite returned.
doOpenComposite_shown(s, f) ==
    LET s1 == IF f.focus THEN compositeFocus(s, f.composite) ELSE s
        s2 == IF f.composite # Null THEN Log(s1, "opened", f.composite) ELSE s1
    IN  Return(s2, f, f.composite)

\* showComposite that ends at line 267, without laying the composite out.
showComposite_visible_unlaid(s, f) == doOpenComposite_shown(s, f)

\* showComposite from line 269: after composite.setVisible(true) returned.
showComposite_visible(s, f) ==
    LET composite == f.composite IN
    IF s.activeComposite = Null \/ composite.id # s.activeComposite.id
    THEN doOpenComposite_shown(s, f)
    ELSE IF s.contentAreaSize # NoSize
    THEN doOpenComposite_shown(
             Log([s EXCEPT !.compositeSize[composite] = s.contentAreaSize],
                 "layout", composite), f)
    ELSE doOpenComposite_shown(s, f)

\* showComposite lines 222-267: the container is there; up to and including
\* the call of composite.setVisible(true).
showComposite_fill(s, f, compositeContainer) ==
    LET composite == f.composite IN
    IF s.activeComposite = Null \/ composite.id # s.activeComposite.id
    THEN doOpenComposite_shown(s, f)
    ELSE LET s1 == [s EXCEPT !.attached = @ \cup {compositeContainer}]
             s2 == IF descriptorName(composite.id) # getTitle(s1, composite)
                   THEN updateTitle(s1, composite.id, getTitle(s1, composite))
                   ELSE s1
             cached == s2.mapActionsBindingToComposite[composite.id]
             actionsBinding == IF cached = Null
                               THEN collectCompositeActions(s2, composite)
                               ELSE cached
             s3 == [s2 EXCEPT !.mapActionsBindingToComposite[composite.id] = actionsBinding]
             s4 == [s3 EXCEPT !.toolBar = actionsBinding]
             s5 == Log([s4 EXCEPT !.visible = @ \cup {composite}], "setVisible(true)", composite)
         IN  Wait(s5, f, "setVisible")

\* showComposite lines 218-220: after composite.create(container) returned.
showComposite_created(s, f) ==
    showComposite_fill(
        [s EXCEPT !.mapCompositeToCompositeContainer[f.composite.id] = f.composite],
        f, f.composite)

\* showComposite storing the default id like any other.
storeActiveId_always(id) == id

\* The value showComposite stores under activeCompositeSettingsKey,
\* lines 196-201.
storeActiveId(id) == IF id # defaultCompositeId THEN id ELSE NoValue

\* showComposite lines 190-215: up to and including the call of
\* composite.create(container) for a composite that has no container yet.
showComposite(s, f) ==
    LET composite == f.composite
        s1 == [s EXCEPT !.activeComposite = composite]
        id == s1.activeComposite.id
        s2 == [s1 EXCEPT !.storage = storeActiveId(id)]
        s3 == [s2 EXCEPT !.lastActiveCompositeId = s2.activeComposite.id]
        compositeContainer == s3.mapCompositeToCompositeContainer[composite.id]
    IN  IF compositeContainer = Null
        THEN Wait(Log([s3 EXCEPT !.created = @ \cup {composite}], "create", composite),
                  f, "create")
        ELSE showComposite_fill(s3, f, compositeContainer)

\* The check of line 132 left out.
openedMeanwhile_unchecked(s, f) == FALSE

\* The check of line 132: another composite was opened meanwhile.
openedMeanwhile(s, f) ==
    \/ s.currentCompositeOpenToken # f.token
    \/ (s.activeComposite # Null /\ s.activeComposite.id # f.composite.id)

\* doOpenComposite from line 131: createComposite returned f.composite.
doOpenComposite_got(s, f) ==
    IF openedMeanwhile(s, f)
    THEN Return(s, f, Null)
    ELSE IF s.activeComposite # Null /\ s.activeComposite.id = f.composite.id
    THEN LET s1 == IF f.focus THEN compositeFocus(s, f.composite) ELSE s
         IN  Return(Log(s1, "opened", f.composite), f, f.composite)
    ELSE showComposite(s, f)

\* createComposite lines 174-184: after compositeDescriptor.instantiate
\* returned f.composite.
createComposite_made(s, f) ==
    LET composite == f.composite
        s1 == [s EXCEPT !.instantiatedCompositeItems[f.id] = composite,
                        !.progressIndicators = @ \cup {composite}]
        s2 == [s1 EXCEPT !.titleListeners = @ \cup {composite}]
    IN  IF f.op = "open" THEN doOpenComposite_got(s2, f) ELSE Return(s2, f, composite)

\* createComposite that returns undefined for an id the registry does not
\* know, where line 187 throws.
createComposite_lenient(s, f) ==
    LET compositeItem == s.instantiatedCompositeItems[f.id] IN
    IF compositeItem # Null
    THEN LET g == [f EXCEPT !.composite = compositeItem]
         IN  IF f.op = "open" THEN doOpenComposite_got(s, g) ELSE Return(s, g, compositeItem)
    ELSE IF getComposite(f.id)
    THEN LET composite == [id |-> f.id, n |-> s.instanceCount + 1]
             s1 == Log([s EXCEPT !.instanceCount = @ + 1], "instantiate", composite)
         IN  Wait(s1, [f EXCEPT !.composite = composite], "instantiate")
    ELSE Return(s, f, Null)

\* createComposite lines 160-171 and 187: the cached composite, or the call
\* of the descriptor's factory, or the lookup error.
createComposite(s, f) ==
    LET compositeItem == s.instantiatedCompositeItems[f.id] IN
    IF compositeItem # Null
    THEN LET g == [f EXCEPT !.composite = compositeItem]
         IN  IF f.op = "open" THEN doOpenComposite_got(s, g) ELSE Return(s, g, compositeItem)
    ELSE IF getComposite(f.id)
    THEN LET composite == [id |-> f.id, n |-> s.instanceCount + 1]
             s1 == Log([s EXCEPT !.instanceCount = @ + 1], "instantiate", composite)
         IN  Wait(s1, [f EXCEPT !.composite = composite], "instantiate")
    ELSE Throw(s, f)

\* doOpenComposite that does not hide the active composite first.
doOpenComposite_keepsActive(s, f) ==
    LET token == nextId(s)
        s1 == [s EXCEPT !.lastId = token, !.currentCompositeOpenToken = token]
        s3 == updateTitle(s1, f.id, NoTitle)
    IN  createComposite(s3, [f EXCEPT !.token = token])

\* doOpenComposite lines 114-129.
doOpenComposite(s, f) ==
    LET token == nextId(s)
        s1 == [s EXCEPT !.lastId = token, !.currentCompositeOpenToken = token]
        s2 == IF s1.activeComposite # Null THEN hideActiveComposite(s1) ELSE s1
        s3 == updateTitle(s2, f.id, NoTitle)
    IN  createComposite(s3, [f EXCEPT !.token = token])

\* openComposite without the check for the composite being active already.
openComposite_reopens(s, f) == doOpenComposite(s, f)

\* openComposite(id, focus), lines 98-112.
openComposite(s, f) ==
    IF s.activeComposite # Null /\ s.activeComposite.id = f.id
    THEN LET s1 == IF f.focus THEN compositeFocus(s, s.activeComposite) ELSE s
         IN  Return(s1, f, s.activeComposite)
    ELSE doOpenComposite(s, f)

\* removeComposite without the check of lines 478-480.
removeComposite_evenActive(s, compositeId) ==
    LET s1 == [s EXCEPT !.mapCompositeToCompositeContainer[compositeId] = Null]
        s2 == [s1 EXCEPT !.mapActionsBindingToComposite[compositeId] = Null]
        compositeItem == s2.instantiatedCompositeItems[compositeId]
    IN  IF compositeItem # Null
        THEN LET s3 == Log([s2 EXCEPT !.disposed = @ \cup {compositeItem}], "dispose", compositeItem)
                 s4 == [s3 EXCEPT !.titleListeners = @ \ {compositeItem}]
             IN  [s |-> [s4 EXCEPT !.instantiatedCompositeItems[compositeId] = Null],
                  removed |-> TRUE]
        ELSE [s |-> s2, removed |-> TRUE]

\* removeComposite without line 488: the disposed composite stays cached.
removeComposite_keepsCached(s, compositeId) ==
    IF s.activeComposite # Null /\ s.activeComposite.id = compositeId
    THEN [s |-> s, removed |-> FALSE]
    ELSE
    LET s1 == [s EXCEPT !.mapCompositeToCompositeContainer[compositeId] = Null]
        s2 == [s1 EXCEPT !.mapActionsBindingToComposite[compositeId] = Null]
        compositeItem == s2.instantiatedCompositeItems[compositeId]
    IN  IF compositeItem # Null
        THEN LET s3 == Log([s2 EXCEPT !.disposed = @ \cup {compositeItem}], "dispose", compositeItem)
             IN  [s |-> [s3 EXCEPT !.titleListeners = @ \ {compositeItem}], removed |-> TRUE]
        ELSE [s |-> s2, removed |-> TRUE]

\* removeComposite(compositeId), lines 477-492: the state and the result.
removeComposite(s, compositeId) ==
    IF s.activeComposite # Null /\ s.activeComposite.id = compositeId
    THEN [s |-> s, removed |-> FALSE]
    ELSE
    LET s1 == [s EXCEPT !.mapCompositeToCompositeContainer[compositeId] = Null]
        s2 == [s1 EXCEPT !.mapActionsBindingToComposite[compositeId] = Null]
        compositeItem == s2.instantiatedCompositeItems[compositeId]
    IN  IF compositeItem # Null
        THEN LET s3 == Log([s2 EXCEPT !.disposed = @ \cup {compositeItem}], "dispose", compositeItem)
                 s4 == [s3 EXCEPT !.titleListeners = @ \ {compositeItem}]
             IN  [s |-> [s4 EXCEPT !.instantiatedCompositeItems[compositeId] = Null],
                  removed |-> TRUE]
        ELSE [s |-> s2, removed |-> TRUE]

\* layout(width, height), lines 466-475.
layout(s, width, height) ==
    LET s1 == [s EXCEPT !.contentAreaSize = layoutContents(width, height)]
    IN  IF s1.activeComposite # Null
        THEN Log([s1 EXCEPT !.compositeSize[s1.activeComposite] = s1.contentAreaSize],
                 "layout", s1.activeComposite)
        ELSE s1

\* onTitleAreaUpdate(compositeId), lines 280-298.
onTitleAreaUpdate(s, compositeId) ==
    IF s.activeComposite # Null /\ s.activeComposite.id = compositeId
    THEN LET s1 == updateTitle(s, s.activeComposite.id, getTitle(s, s.activeComposite))
             actionsBinding == collectCompositeActions(s1, s1.activeComposite)
             s2 == [s1 EXCEPT !.mapActionsBindingToComposite[s1.activeComposite.id] = actionsBinding]
         IN  [s2 EXCEPT !.toolBar = actionsBinding]
    ELSE [s EXCEPT !.mapActionsBindingToComposite[compositeId] = Null]

\* Disposable.dispose(), which line 505 calls: what the part registered with
\* _register is disposed, the progress indicators of line 179 among it.
superDispose(s) == [s EXCEPT !.progressIndicators = {}]

\* The loop of lines 498-501 with line 500 left out: the listeners stay.
RECURSIVE disposeItems_keepsListeners(_, _)
disposeItems_keepsListeners(s, order) ==
    IF order = <<>> THEN s
    ELSE LET compositeItem == s.instantiatedCompositeItems[Head(order)]
             s1 == Log([s EXCEPT !.disposed = @ \cup {compositeItem}], "dispose", compositeItem)
         IN  disposeItems_keepsListeners(s1, Tail(order))

\* The loop of lines 498-501 over the cached ids in the map's order:
\* composite.dispose() and dispose(compositeItem.disposable) for each.
RECURSIVE disposeItems(_, _)
disposeItems(s, order) ==
    IF order = <<>> THEN s
    ELSE LET compositeItem == s.instantiatedCompositeItems[Head(order)]
             s1 == Log([s EXCEPT !.disposed = @ \cup {compositeItem}], "dispose", compositeItem)
             s2 == [s1 EXCEPT !.titleListeners = @ \ {compositeItem}]
         IN  disposeItems(s2, Tail(order))

\* dispose(), lines 494-506.  `order` is the order instantiatedCompositeItems
\* holds its keys in.
dispose(s, order) ==
    LET s1 == [s EXCEPT !.mapCompositeToCompositeContainer = [id \in AllIds |-> Null]]
        s2 == [s1 EXCEPT !.mapActionsBindingToComposite = [id \in AllIds |-> Null]]
        s3 == disposeItems(s2, order)
        s4 == [s3 EXCEPT !.instantiatedCompositeItems = [id \in AllIds |-> Null]]
    IN  superDispose(s4)


\* ------------------------------------------------------ telemetryUtils.ts
\* (src/vs/platform/telemetry/common/telemetryUtils.ts)
\* A string is the sequence of its symbols; a symbol is a dot or a word that
\* has none.
Dot == "."
EmptyString == <<>>
Str(word) == <<word>>

\* The template `${prefix}.${key}` of line 258.
DotJoin(prefix, key) == prefix \o <<Dot>> \o key

\* str.split('.'), line 271.
RECURSIVE split(_)
split(str) ==
    IF \A i \in 1..Len(str) : str[i] # Dot THEN <<str>>
    ELSE LET i == CHOOSE i \in 1..Len(str) : str[i] = Dot /\ \A j \in 1..(i - 1) : str[j] # Dot
         IN  <<SubSeq(str, 1, i - 1)>> \o split(SubSeq(str, i + 1, Len(str)))

\* The values of the language: undefined, null, numbers, true, strings (kv
\* holds the symbols), arrays (kv holds the items) and plain objects (kv holds the <<key, value>> entries in
\* the order Object.keys gives them).
Undefined == [t |-> "undefined", v |-> 0, kv |-> <<>>]
JsNull == [t |-> "null", v |-> 0, kv |-> <<>>]
Number(n) == [t |-> "number", v |-> n, kv |-> <<>>]
True == [t |-> "boolean", v |-> 1, kv |-> <<>>]
String(str) == [t |-> "string", v |-> 0, kv |-> str]
Array(items) == [t |-> "array", v |-> 0, kv |-> items]
Object(entries) == [t |-> "object", v |-> 0, kv |-> entries]

\* !!x
Truthy(x) ==
    \/ x.t \in {"array", "object"}
    \/ (x.t \in {"number", "boolean"} /\ x.v # 0)
    \/ (x.t = "string" /\ x.kv # EmptyString)

\* typeof x
typeof(x) == IF x.t \in {"null", "array", "object"} THEN "object" ELSE x.t

\* Array.isArray(x)
isArray(x) == x.t = "array"

\* Object.keys(x) of a value that is not null or undefined: the keys of a
\* plain object; an array has its indices, which no key of the model is, and
\* a number has none.
ObjectKeys(x) == IF x.t = "object" THEN [i \in 1..Len(x.kv) |-> x.kv[i][1]] ELSE <<>>

\* x[key] of a value that is not null or undefined.
Get(x, key) ==
    IF x.t = "object" /\ \E i \in 1..Len(x.kv) : x.kv[i][1] = key
    THEN x.kv[CHOOSE i \in 1..Len(x.kv) : x.kv[i][1] = key][2]
    ELSE Undefined

\* What a call gives: its value, or the TypeError the language raises.
Ok(value) == [status |-> "return", value |-> value]
TypeError == [status |-> "throw", value |-> <<>>]

\* flatKeys that pushes the path of an object as well as its leaves'.
RECURSIVE flatKeys_withObjects(_, _, _)
RECURSIVE flatKeysEach_withObjects(_, _, _, _)
flatKeysEach_withObjects(result, prefix, value, keys) ==
    IF keys = <<>> THEN result
    ELSE LET key == Head(keys)
         IN  flatKeysEach_withObjects(
                 flatKeys_withObjects(result,
                                      IF prefix # EmptyString THEN DotJoin(prefix, key) ELSE key,
                                      Get(value, key)),
                 prefix, value, Tail(keys))
flatKeys_withObjects(result, prefix, value) ==
    IF Truthy(value) /\ typeof(value) = "object" /\ ~isArray(value)
    THEN flatKeysEach_withObjects(Append(result, prefix), prefix, value, ObjectKeys(value))
    ELSE Append(result, prefix)

\* flatKeys(result, prefix, value), lines 256-263; flatKeysEach is the
\* forEach of line 258 over the keys left.
RECURSIVE flatKeys(_, _, _)
RECURSIVE flatKeysEach(_, _, _, _)
flatKeysEach(result, prefix, value, keys) ==
    IF keys = <<>> THEN result
    ELSE LET key == Head(keys)
         IN  flatKeysEach(
                 flatKeys(result,
                          IF prefix # EmptyString THEN DotJoin(prefix, key) ELSE key,
                          Get(value, key)),
                 prefix, value, Tail(keys))
flatKeys(result, prefix, value) ==
    IF Truthy(value) /\ typeof(value) = "object" /\ ~isArray(value)
    THEN flatKeysEach(result, prefix, value, ObjectKeys(value))
    ELSE Append(result, prefix)

\* flattenKeys(value), lines 247-254.
flattenKeys(value) ==
    IF ~Truthy(value) THEN Ok(<<>>)
    ELSE Ok(flatKeys(<<>>, EmptyString, value))

\* The inner reduce of line 271: the value the segments lead to from tmp.
RECURSIVE resolve(_, _)
resolve(tmp, segments) ==
    IF segments = <<>> THEN tmp
    ELSE resolve(IF Truthy(tmp) /\ typeof(tmp) = "object"
                 THEN Get(tmp, Head(segments))
                 ELSE Undefined,
                 Tail(segments))

\* The outer reduce of lines 270-277 that pushes what the first segment
\* alone leads to.
RECURSIVE reduceKeys_firstSegment(_, _, _)
reduceKeys_firstSegment(array, keys, value) ==
    IF keys = <<>> THEN array
    ELSE LET key == Head(keys)
             v == resolve(value, <<Head(split(key))>>)
         IN  reduceKeys_firstSegment(
                 IF typeof(v) # "undefined" THEN Append(array, Object(<< <<key, v>> >>)) ELSE array,
                 Tail(keys), value)

\* The outer reduce of lines 270-277 over the keys left.
RECURSIVE reduceKeys(_, _, _)
reduceKeys(array, keys, value) ==
    IF keys = <<>> THEN array
    ELSE LET key == Head(keys)
             v == resolve(value, split(key))
         IN  reduceKeys(
                 IF typeof(v) # "undefined" THEN Append(array, Object(<< <<key, v>> >>)) ELSE array,
                 Tail(keys), value)

\* flattenValues(value, keys), lines 265-278.  keys.reduce of a keys that is
\* undefined raises a TypeError.
flattenValues(value, keys) ==
    IF ~Truthy(value) THEN Ok(<<>>)
    ELSE IF ~isArray(keys) THEN TypeError
    ELSE Ok(reduceKeys(<<>>, keys.kv, value))


\* The regex without its anchors: any key that has one of the words in it.
commonPropertiesRegexTest_unanchored(key) ==
    \E i \in 1..Len(key) :
        \/ key[i] \in {"sessionID", "version", "timestamp", "commitHash"}
        \/ (i < Len(key) /\ key[i] = "common" /\ key[i + 1] = Dot)

\* commonPropertiesRegex.test(key), line 49:
\* /^sessionID$|^version$|^timestamp$|^commitHash$|^common\./
commonPropertiesRegexTest(key) ==
    \/ key \in {Str("sessionID"), Str("version"), Str("timestamp"), Str("commitHash")}
    \/ (Len(key) >= 2 /\ key[1] = "common" /\ key[2] = Dot)

\* The forEach of lines 58-62 over the keys left.
RECURSIVE strip(_, _, _)
strip(strippedData, data, keys) ==
    IF keys = <<>> THEN strippedData
    ELSE LET key == Head(keys)
         IN  strip(IF ~commonPropertiesRegexTest(key)
                   THEN Append(strippedData, <<key, Get(data, key)>>)
                   ELSE strippedData,
                   data, Tail(keys))

\* LogAppender.log(eventName, data), lines 56-64: what _logService.trace is
\* given, and the data object as the call leaves it.  Object.keys of null or
\* undefined raises a TypeError.
LogAppenderLog(eventName, data) ==
    IF data.t \in {"undefined", "null"} THEN TypeError
    ELSE Ok([message |-> <<"telemetry/", eventName>>,
             strippedData |-> Object(strip(<<>>, data, ObjectKeys(data))),
             data |-> data])

\* An appender: whether its dispose() returns a promise or undefined, the
\* log calls it got, and where the result of its dispose() is.
Sink(returns) == [returns |-> returns, logs |-> <<>>, disposal |-> "none"]

\* combinedAppender(..).log(e, d), line 39: a.log(e, d) for each appender,
\* in the order of the arguments.
combinedLog(appenders, e, d) ==
    [appenders |-> [i \in 1..Len(appenders) |-> [appenders[i] EXCEPT !.logs = Append(@, <<e, d>>)]],
     calls |-> [i \in 1..Len(appenders) |-> [appender |-> i, e |-> e, d |-> d]]]

\* Promise.race in place of Promise.all: settled with the first result that is.
PromiseAll_race(results) ==
    IF results = <<>> THEN "resolved"
    ELSE IF \E i \in 1..Len(results) : results[i] = "rejected" THEN "rejected"
    ELSE IF \E i \in 1..Len(results) : results[i] \in {"resolved", "undefined"} THEN "resolved"
    ELSE "pending"

\* Promise.all(results), line 40: rejected once one of them is, resolved
\* once all of them are; a result that is no promise counts as resolved.
PromiseAll(results) ==
    IF \E i \in 1..Len(results) : results[i] = "rejected" THEN "rejected"
    ELSE IF \A i \in 1..Len(results) : results[i] \in {"resolved", "undefined"} THEN "resolved"
    ELSE "pending"

\* combinedAppender(..).dispose(), line 40: a.dispose() for each appender;
\* the promise it returns is settled later.
combinedDispose(appenders) ==
    [i \in 1..Len(appenders) |->
        [appenders[i] EXCEPT !.disposal = IF appenders[i].returns = "promise"
                                          THEN "pending" ELSE "undefined"]]

\* ConfigurationTarget and ConfigurationTargetToString of
\* vs/platform/configuration/common/configuration.
ConfigurationTarget ==
    [USER |-> 1, USER_LOCAL |-> 2, USER_REMOTE |-> 3, WORKSPACE |-> 4,
     WORKSPACE_FOLDER |-> 5, DEFAULT |-> 6, MEMORY |-> 7]
ConfigurationTargets == {ConfigurationTarget[n] : n \in DOMAIN ConfigurationTarget}
ConfigurationTargetToString(source) ==
    CHOOSE n \in DOMAIN ConfigurationTarget : ConfigurationTarget[n] = source

\* KeybindingSource of vs/platform/keybinding/common/keybinding.
KeybindingSource == [Default |-> 1, User |-> 2]
KeybindingSources == {KeybindingSource[n] : n \in DOMAIN KeybindingSource}

\* configurationValueWhitelist, lines 100-193: dotted setting names, here
\* over the keys of the model's trees.
configurationValueWhitelist ==
    Array(<<DotJoin(Str("a"), Str("b")), DotJoin(Str("b"), Str("a")), Str("b")>>)

\* telemetryService.publicLog2(eventName, data)
publicLog2(eventName, data) == [eventName |-> eventName, data |-> data]

\* The listener of configurationTelemetry, lines 196-223, without the check
\* of line 197.
onDidChangeConfiguration_anySource(event) ==
    <<publicLog2("updateConfiguration",
                 [configurationSource |-> ConfigurationTargetToString(event.source),
                  configurationKeys |-> flattenKeys(event.sourceConfig).value]),
      publicLog2("updateConfigurationValues",
                 [configurationSource |-> ConfigurationTargetToString(event.source),
                  configurationValues |->
                      flattenValues(event.sourceConfig, configurationValueWhitelist).value])>>

\* The listener of configurationTelemetry, lines 196-223: the events it
\* publishes, in order.
onDidChangeConfiguration(event) ==
    IF event.source # ConfigurationTarget.DEFAULT
    THEN <<publicLog2("updateConfiguration",
                      [configurationSource |-> ConfigurationTargetToString(event.source),
                       configurationKeys |-> flattenKeys(event.sourceConfig).value]),
           publicLog2("updateConfigurationValues",
                      [configurationSource |-> ConfigurationTargetToString(event.source),
                       configurationValues |->
                           flattenValues(event.sourceConfig, configurationValueWhitelist).value])>>
    ELSE <<>>

\* The listener of keybindingsTelemetry, lines 227-244: the events it
\* publishes.
onDidUpdateKeybindings(event) ==
    IF event.source = KeybindingSource.User /\ Truthy(event.keybindings)
    THEN <<publicLog2("updateKeybindings",
                      [bindings |->
                          [i \in 1..Len(event.keybindings.kv) |->
                              LET binding == event.keybindings.kv[i]
                              IN  [key |-> binding.key,
                                   command |-> binding.command,
                                   when |-> binding.when,
                                   args |-> IF Truthy(binding.args) THEN True ELSE Undefined]]])>>
    ELSE <<>>

\* No call of a telemetry function was made, no notification came.
NoOutput == [fn |-> "none", keys |-> Undefined, eventName |-> "", result |-> Ok(<<>>)]
NoNotification == [kind |-> "none", event |-> Undefined, events |-> <<>>]

\* The telemetry utilities before anything is asked of them.
TelemetryIdle ==
    /\ tree = Undefined
    /\ flatOut = NoOutput
    /\ logData = Undefined
    /\ logged = NoOutput
    /\ sinks = <<>>
    /\ sinkCalls = <<>>
    /\ combined = "none"
    /\ published = NoNotification


\* ---------------------------------------------------------------- actions
StorageValues == {NoValue} \cup (AllIds \ {defaultCompositeId})
Widths == {3}
Heights == {3}
NoCall == [op |-> "none", id |-> "", focus |-> FALSE, token |-> 0, depth |-> 0,
           value |-> NotReturned, nested |-> <<>>]

\* The constructor, lines 91-95.  The part alone writes the settings key, so
\* the store it finds holds an id other than the default one, or nothing.
\* Init is the part with the telemetry utilities left alone.
PartInit ==
    /\ activeComposite = Null
    /\ instantiatedCompositeItems = [id \in AllIds |-> Null]
    /\ storage \in StorageValues
    /\ lastActiveCompositeId = storageGet(storage, defaultCompositeId)
    /\ mapCompositeToCompositeContainer = [id \in AllIds |-> Null]
    /\ mapActionsBindingToComposite = [id \in AllIds |-> Null]
    /\ currentCompositeOpenToken = 0
    /\ contentAreaSize = NoSize
    /\ lastId = 0
    /\ titleLabel = NoTitle
    /\ toolBar = Null
    /\ attached = {}
    /\ visible = {}
    /\ created = {}
    /\ disposed = {}
    /\ titleListeners = {}
    /\ progressIndicators = {}
    /\ compositeSize = [c \in Instances |-> NoSize]
    /\ titleArea = [c \in Instances |-> InitialArea]
    /\ instanceCount = 0
    /\ stack = <<>>
    /\ lastReturn = NoCall
    /\ reentrantCalls = 0
    /\ trace = <<>>

Init == PartInit /\ TelemetryIdle

\* The record of a finished call.
Finished(f, depth, value) ==
    [op |-> f.op, id |-> f.id, focus |-> f.focus, token |-> f.token, depth |-> depth,
     value |-> value, nested |-> f.nested]

\* The caller's frame once the call it was suspended in saw call f come back
\* into the part and return.
Noting(below, f, value) ==
    IF below = <<>> THEN below
    ELSE [below EXCEPT ![Len(below)].nested =
              Append(@, [pc |-> below[Len(below)].pc, op |-> f.op, id |-> f.id,
                         value |-> value, clean |-> f.nested = <<>>])]

\* A call ran up to its next hand-over with result r, above the calls
\* `below`.  A call that is suspended goes on the stack.  One that returned
\* comes off it.  An error leaves the part through the composite code that
\* made the call: that code catches it, or lets it pass and so ends the call
\* below as well, and so on down.
Settle(below, r) ==
    /\ Commit(r.s)
    /\ IF r.status = "wait"
       THEN /\ stack' = Append(below, r.f)
            /\ UNCHANGED lastReturn
       ELSE IF r.status = "return"
       THEN /\ stack' = Noting(below, r.f, Returned(r.value))
            /\ lastReturn' = Finished(r.f, Len(below) + 1, Returned(r.value))
       ELSE \E k \in 0..Len(below) :
               LET ended == Append(below, r.f)
                   passed == IF k = 0 THEN ended
                             ELSE Noting(SubSeq(ended, 1, Len(ended) - k),
                                         ended[Len(ended) - k + 1], Thrown)
                   outer == passed[Len(ended) - k]
                   rest == SubSeq(below, 1, Len(below) - k)
               IN  /\ stack' = Noting(rest, outer, Thrown)
                   /\ lastReturn' = Finished(outer, Len(rest) + 1, Thrown)

\* The caps on the run's counters: the call mints a token, asks a factory
\* for an instance.
MintsToken(id) == activeComposite = Null \/ activeComposite.id # id
Instantiates(id) == getComposite(id) /\ instantiatedCompositeItems[id] = Null
WithinCaps(op, id) ==
    /\ (op = "open" /\ MintsToken(id)) => lastId < MaxTokens
    /\ Instantiates(id) /\ (op = "open" => MintsToken(id)) => instanceCount < MaxInstances

\* A caller of the part (not a composite in one of its callbacks) calls
\* openComposite(id, focus).
OpenComposite(id, focus) ==
    /\ stack = <<>>
    /\ WithinCaps("open", id)
    /\ reentrantCalls' = 0
    /\ Settle(<<>>, openComposite([Part EXCEPT !.trace = <<>>], Frame("open", id, focus)))

\* A composite calls openComposite(id, focus) from the factory, create() or
\* setVisible(true) the part is calling.
OpenCompositeReentrant(id, focus) ==
    /\ stack # <<>>
    /\ reentrantCalls < MaxReentrant
    /\ WithinCaps("open", id)
    /\ reentrantCalls' = reentrantCalls + 1
    /\ Settle(stack, openComposite(Part, Frame("open", id, focus)))

\* A caller of the part calls createComposite(id).
CreateComposite(id) ==
    /\ stack = <<>>
    /\ WithinCaps("create", id)
    /\ reentrantCalls' = 0
    /\ Settle(<<>>, createComposite([Part EXCEPT !.trace = <<>>], Frame("create", id, FALSE)))

Top == stack[Len(stack)]
Below == SubSeq(stack, 1, Len(stack) - 1)

\* The factory returns the new composite.
InstantiateReturns ==
    /\ stack # <<>>
    /\ Top.pc = "instantiate"
    /\ Settle(Below, createComposite_made(Part, Top))
    /\ UNCHANGED reentrantCalls

\* composite.create(container) returns.
CreateReturns ==
    /\ stack # <<>>
    /\ Top.pc = "create"
    /\ Settle(Below, showComposite_created(Part, Top))
    /\ UNCHANGED reentrantCalls

\* composite.setVisible(true) returns.
SetVisibleReturns ==
    /\ stack # <<>>
    /\ Top.pc = "setVisible"
    /\ Settle(Below, showComposite_visible(Part, Top))
    /\ UNCHANGED reentrantCalls

\* A caller of the part calls hideActiveComposite().
HideActiveComposite ==
    /\ stack = <<>>
    /\ Commit(hideActiveComposite([Part EXCEPT !.trace = <<>>]))
    /\ lastReturn' = [NoCall EXCEPT !.op = "hide", !.depth = 1,
                                    !.value = Returned(activeComposite)]
    /\ reentrantCalls' = 0
    /\ UNCHANGED stack

\* A caller of the part calls removeComposite(compositeId).
RemoveComposite(compositeId) ==
    /\ stack = <<>>
    /\ LET r == removeComposite([Part EXCEPT !.trace = <<>>], compositeId)
       IN  /\ Commit(r.s)
           /\ lastReturn' = [NoCall EXCEPT !.op = "remove", !.id = compositeId, !.depth = 1,
                                           !.value.kind = IF r.removed THEN "true" ELSE "false"]
    /\ reentrantCalls' = 0
    /\ UNCHANGED stack

\* A caller of the part calls layout(width, height).
Layout(width, height) ==
    /\ stack = <<>>
    /\ Commit(layout([Part EXCEPT !.trace = <<>>], width, height))
    /\ lastReturn' = [NoCall EXCEPT !.op = "layout", !.depth = 1]
    /\ reentrantCalls' = 0
    /\ UNCHANGED stack

Next ==
    \/ \E id \in AllIds, focus \in BOOLEAN : OpenComposite(id, focus)
    \/ \E id \in AllIds, focus \in BOOLEAN : OpenCompositeReentrant(id, focus)
    \/ \E id \in AllIds : CreateComposite(id)
    \/ InstantiateReturns
    \/ CreateReturns
    \/ SetVisibleReturns
    \/ HideActiveComposite
    \/ \E id \in AllIds : RemoveComposite(id)
    \/ \E width \in Widths, height \in Heights : Layout(width, height)

Spec == Init /\ [][Next]_vars

\* ---------------------------------------------------------- title updates
\* A composite whose listener of line 181 is live changes what it has for its
\* title area, or not, and fires onTitleAreaUpdate: the listener calls
\* onTitleAreaUpdate(composite.getId()).
TitleAreaUpdate(composite, area) ==
    /\ stack = <<>>
    /\ composite \in titleListeners
    /\ Commit(onTitleAreaUpdate([Part EXCEPT !.trace = <<>>, !.titleArea[composite] = area],
                                composite.id))
    /\ lastReturn' = [NoCall EXCEPT !.op = "titleAreaUpdate", !.id = composite.id, !.depth = 1,
                                    !.value = Returned(composite)]
    /\ reentrantCalls' = 0
    /\ UNCHANGED stack

TitleNext ==
    \/ Next
    \/ \E composite \in Instances, area \in TitleAreas : TitleAreaUpdate(composite, area)

\* The part and composites that update their title areas.
TitleSpec == Init /\ [][TitleNext]_vars

\* ------------------------------------------------------------ the teardown
\* The ids the cache holds a composite for, and the orders a Map can hold them
\* in (the order they were set in, which the model does not keep).
CachedIds == {id \in AllIds : instantiatedCompositeItems[id] # Null}
KeyOrders(ids) ==
    {order \in [1..Cardinality(ids) -> ids] :
        \A i, j \in 1..Cardinality(ids) : order[i] = order[j] => i = j}

\* The part was not disposed yet.
Live == lastReturn.op # "dispose"

\* The owner of the part calls dispose().  It is the last call the part gets.
Dispose ==
    /\ stack = <<>>
    /\ Live
    /\ \E order \in KeyOrders(CachedIds) :
          Commit(dispose([Part EXCEPT !.trace = <<>>], order))
    /\ lastReturn' = [NoCall EXCEPT !.op = "dispose", !.depth = 1]
    /\ reentrantCalls' = 0
    /\ UNCHANGED stack

TeardownNext ==
    \/ Live /\ Next
    \/ Dispose

\* The part from its construction to its teardown.
TeardownSpec == Init /\ [][TeardownNext]_vars

\* ------------------------------------------------ opening, hiding, removing
OperateNext ==
    \/ \E id \in AllIds, focus \in BOOLEAN : OpenComposite(id, focus)
    \/ \E id \in AllIds, focus \in BOOLEAN : OpenCompositeReentrant(id, focus)
    \/ InstantiateReturns
    \/ CreateReturns
    \/ SetVisibleReturns
    \/ HideActiveComposite
    \/ \E id \in AllIds : RemoveComposite(id)

\* The part as its callers open, hide and remove composites, and composites
\* open composites from their callbacks.
OperateSpec == Init /\ [][OperateNext]_vars

\* ---------------------------------------------------------------- resizing
\* The heights the owner of the part lays it out with, one after another.
ResizedHeights == {3, 4}

ResizeNext ==
    \/ Next
    \/ \E width \in Widths, height \in ResizedHeights : Layout(width, height)

\* The part in a workbench that is resized.
ResizeSpec == Init /\ [][ResizeNext]_vars


\* ------------------------------------------------- the flatten functions
\* The part as it is left alone while the telemetry utilities run.
PartIdle == PartInit /\ storage = NoValue
partState == <<partVars, stack, lastReturn, reentrantCalls>>

\* The trees: objects over two keys whose values are a number, null, an
\* array or an object again, with MaxEntries entries in all; and what may
\* come in the place of a tree.
TreeKeys == {Str("a"), Str("b")}
TreeLeaves == {Number(1), JsNull, Array(<<>>)}
EntryValues == TreeLeaves \cup {Object(<<>>)}
Roots == {Undefined, JsNull, Number(0), Number(1), Array(<<>>), Object(<<>>)}
KeyPaths == UNION {[1..n -> TreeKeys] : n \in 0..(MaxEntries - 1)}

\* The whitelists: undefined, or up to MaxWhitelist dotted names.
WhitelistPaths ==
    {Str("a"), Str("b"), DotJoin(Str("a"), Str("b")), DotJoin(Str("b"), Str("a"))}
Whitelists ==
    {Undefined} \cup {Array(keys) : keys \in UNION {[1..n -> WhitelistPaths] : n \in 0..MaxWhitelist}}

\* The entries of a tree, at all levels.
RECURSIVE Entries(_)
RECURSIVE EntriesOf(_)
EntriesOf(entries) ==
    IF entries = <<>> THEN 0
    ELSE 1 + Entries(Head(entries)[2]) + EntriesOf(Tail(entries))
Entries(value) == IF value.t = "object" THEN EntriesOf(value.kv) ELSE 0

\* The value the keys of `path` lead to.
RECURSIVE At(_, _)
At(value, path) ==
    IF path = <<>> THEN value
    ELSE At(Get(value, Head(path)), Tail(path))

\* The tree with key: val added to the object at `path`.
RECURSIVE Insert(_, _, _, _)
Insert(value, path, key, val) ==
    IF path = <<>> THEN Object(Append(value.kv, <<key, val>>))
    ELSE Object([i \in 1..Len(value.kv) |->
                    IF value.kv[i][1] = Head(path)
                    THEN <<value.kv[i][1], Insert(value.kv[i][2], Tail(path), key, val)>>
                    ELSE value.kv[i]])

FlattenInit ==
    /\ PartIdle
    /\ tree \in Roots
    /\ flatOut = NoOutput
    /\ logData = Undefined
    /\ logged = NoOutput
    /\ sinks = <<>>
    /\ sinkCalls = <<>>
    /\ combined = "none"
    /\ published = NoNotification

\* The owner of the tree sets one more entry in one of its objects, before
\* the tree is handed to a function or sent with a notification.
SetEntry(path, key, val) ==
    /\ flatOut = NoOutput
    /\ published = NoNotification
    /\ Entries(tree) < MaxEntries
    /\ At(tree, path).t = "object"
    /\ Get(At(tree, path), key) = Undefined
    /\ tree' = Insert(tree, path, key, val)
    /\ UNCHANGED <<partState, flatOut, logData, logged, sinks, sinkCalls, combined, published>>

\* flattenKeys(tree) is called.  The functions keep nothing from one call to
\* the next, so a run makes one call.
FlattenKeys ==
    /\ flatOut = NoOutput
    /\ flatOut' = [NoOutput EXCEPT !.fn = "flattenKeys", !.result = flattenKeys(tree)]
    /\ UNCHANGED <<partState, tree, logData, logged, sinks, sinkCalls, combined, published>>

\* flattenValues(tree, keys) is called.
FlattenValues(keys) ==
    /\ flatOut = NoOutput
    /\ flatOut' = [NoOutput EXCEPT !.fn = "flattenValues", !.keys = keys,
                                   !.result = flattenValues(tree, keys)]
    /\ UNCHANGED <<partState, tree, logData, logged, sinks, sinkCalls, combined, published>>

FlattenNext ==
    \/ \E path \in KeyPaths, key \in TreeKeys, val \in EntryValues : SetEntry(path, key, val)
    \/ FlattenKeys
    \/ \E keys \in Whitelists : FlattenValues(keys)

\* flattenKeys and flattenValues on every tree and whitelist of the bounds.
FlattenSpec == FlattenInit /\ [][FlattenNext]_vars


\* ------------------------------------------------------------ LogAppender
\* The keys of event data: the common properties, and keys that have the
\* name of one in them or none; and the values.
LogKeys ==
    {Str("sessionID"), Str("version"), Str("timestamp"), Str("commitHash"),
     DotJoin(Str("common"), Str("os")), Str("common"),
     DotJoin(Str("my"), Str("sessionID")), DotJoin(Str("my"), DotJoin(Str("common"), Str("os"))),
     Str("foo")}
LogValues == {Number(1), String(Str("x"))}
LogEvents == {"editorOpened"}

LogInit ==
    /\ PartIdle
    /\ logData \in {Undefined, JsNull, Object(<<>>)}
    /\ logged = NoOutput
    /\ tree = Undefined
    /\ flatOut = NoOutput
    /\ sinks = <<>>
    /\ sinkCalls = <<>>
    /\ combined = "none"
    /\ published = NoNotification

\* The sender of the event sets one more entry in its data, before it logs it.
SetDatum(key, val) ==
    /\ logged = NoOutput
    /\ logData.t = "object"
    /\ Len(logData.kv) < MaxData
    /\ Get(logData, key) = Undefined
    /\ logData' = Object(Append(logData.kv, <<key, val>>))
    /\ UNCHANGED <<partState, tree, flatOut, logged, sinks, sinkCalls, combined, published>>

\* LogAppender.log(eventName, logData) is called.  The appender keeps nothing
\* from one call to the next, so a run makes one call.
LogAppenderLogs(eventName) ==
    /\ logged = NoOutput
    /\ LET r == LogAppenderLog(eventName, logData)
       IN  /\ logged' = [NoOutput EXCEPT !.fn = "log", !.keys = logData,
                                         !.eventName = eventName, !.result = r]
           /\ logData' = IF r.status = "return" THEN r.value.data ELSE logData
    /\ UNCHANGED <<partState, tree, flatOut, sinks, sinkCalls, combined, published>>

LogNext ==
    \/ \E key \in LogKeys, val \in LogValues : SetDatum(key, val)
    \/ \E eventName \in LogEvents : LogAppenderLogs(eventName)

\* LogAppender.log on every data object of the bounds.
LogSpec == LogInit /\ [][LogNext]_vars


\* -------------------------------------------------------- combinedAppender
SinkLists ==
    UNION {[1..n -> {Sink("promise"), Sink("undefined")}] : n \in 0..MaxSinks}
SinkData == {Object(<<>>), Object(<< <<Str("foo"), Number(1)>> >>)}

\* combinedAppender(...sinks), lines 37-42.
AppenderInit ==
    /\ PartIdle
    /\ sinks \in SinkLists
    /\ sinkCalls = <<>>
    /\ combined = "none"
    /\ tree = Undefined
    /\ flatOut = NoOutput
    /\ logData = Undefined
    /\ logged = NoOutput
    /\ published = NoNotification

\* log(e, d) of the combined appender is called.
CombinedLog(e, d) ==
    /\ \A i \in 1..Len(sinks) : Len(sinks[i].logs) < MaxLogs
    /\ LET r == combinedLog(sinks, e, d)
       IN  /\ sinks' = r.appenders
           /\ sinkCalls' = r.calls
    /\ UNCHANGED <<partState, tree, flatOut, logData, logged, combined, published>>

\* dispose() of the combined appender is called.
CombinedDispose ==
    /\ combined = "none"
    /\ sinks' = combinedDispose(sinks)
    /\ combined' = "pending"
    /\ UNCHANGED <<partState, tree, flatOut, logData, logged, sinkCalls, published>>

\* The promise an appender's dispose() returned is resolved or rejected.
DisposeSettles(i, outcome) ==
    /\ sinks[i].disposal = "pending"
    /\ sinks' = [sinks EXCEPT ![i].disposal = outcome]
    /\ UNCHANGED <<partState, tree, flatOut, logData, logged, sinkCalls, combined, published>>

\* The promise of Promise.all is settled.
CombinedSettles ==
    /\ combined = "pending"
    /\ PromiseAll([i \in 1..Len(sinks) |-> sinks[i].disposal]) # "pending"
    /\ combined' = PromiseAll([i \in 1..Len(sinks) |-> sinks[i].disposal])
    /\ UNCHANGED <<partState, tree, flatOut, logData, logged, sinks, sinkCalls, published>>

AppenderNext ==
    \/ \E e \in LogEvents, d \in SinkData : CombinedLog(e, d)
    \/ CombinedDispose
    \/ \E i \in 1..Len(sinks), outcome \in {"resolved", "rejected"} : DisposeSettles(i, outcome)
    \/ CombinedSettles

\* A combined appender over every list of appenders of the bounds.
AppenderSpec == AppenderInit /\ [][AppenderNext]_vars


\* --------------------------------- configurationTelemetry, keybindingsTelemetry
\* The keybindings a notification carries: none, or a list of bindings with
\* and without a when clause and arguments.
Bindings ==
    [key : {"ctrl+k"}, command : {"workbench.action.files.save"},
     when : {Undefined, String(Str("editorFocus"))},
     args : {Undefined, Object(<<>>)}]
KeybindingLists ==
    {Undefined} \cup {Array(list) : list \in UNION {[1..n -> Bindings] : n \in 0..MaxBindings}}

EventsInit ==
    /\ PartIdle
    /\ tree \in {Undefined, Object(<<>>)}
    /\ published = NoNotification
    /\ flatOut = NoOutput
    /\ logData = Undefined
    /\ logged = NoOutput
    /\ sinks = <<>>
    /\ sinkCalls = <<>>
    /\ combined = "none"

\* configurationService fires onDidChangeConfiguration with the tree as the
\* changed configuration of `source`.  The listeners keep nothing from one
\* notification to the next, so a run has one.
ConfigurationChanges(source) ==
    /\ published = NoNotification
    /\ LET event == [source |-> source, sourceConfig |-> tree]
       IN  published' = [kind |-> "configuration", event |-> event,
                         events |-> onDidChangeConfiguration(event)]
    /\ UNCHANGED <<partState, tree, flatOut, logData, logged, sinks, sinkCalls, combined>>

\* keybindingService fires onDidUpdateKeybindings.
KeybindingsUpdate(source, keybindings) ==
    /\ published = NoNotification
    /\ LET event == [source |-> source, keybindings |-> keybindings]
       IN  published' = [kind |-> "keybindings", event |-> event,
                         events |-> onDidUpdateKeybindings(event)]
    /\ UNCHANGED <<partState, tree, flatOut, logData, logged, sinks, sinkCalls, combined>>

EventsNext ==
    \/ \E path \in KeyPaths, key \in TreeKeys, val \in EntryValues : SetEntry(path, key, val)
    \/ \E source \in ConfigurationTargets : ConfigurationChanges(source)
    \/ \E source \in KeybindingSources, keybindings \in KeybindingLists :
          KeybindingsUpdate(source, keybindings)

\* The two listeners on every notification of the bounds.
EventsSpec == EventsInit /\ [][EventsNext]_vars


\* ----------------------------------------------------------------- claims
\* The places of the trace that hold event `what`.
Places(what) == {i \in 1..Len(trace) : trace[i].ev = what}

\* The outermost call returned, and no composite called back meanwhile.
Undisturbed(op) ==
    /\ stack = <<>>
    /\ lastReturn.op = op
    /\ lastReturn.nested = <<>>

\* What hideActiveComposite does to composite a, in order.
HideEvents(a) == <<Ev("setVisible(false)", a), Ev("progressBar.stop", a), Ev("closed", a)>>

\* The composites that are visible are the active one.
ExclusiveActive ==
    /\ Cardinality(visible) <= 1
    /\ \A c \in visible : c = activeComposite

\* An openComposite(id) step taken while another composite is active hides
\* that one first: it is invisible and its "closed" is out before anything
\* else the call does.
HidesBeforeShowing ==
    \A id \in AllIds, fc \in BOOLEAN :
        /\ activeComposite # Null
        /\ activeComposite.id # id
        /\ OpenComposite(id, fc) \/ OpenCompositeReentrant(id, fc)
        => LET a == activeComposite
               n == IF stack = <<>> THEN 0 ELSE Len(trace)
           IN  /\ Len(trace') >= n + 3
               /\ SubSeq(trace', n + 1, n + 3) = HideEvents(a)
               /\ a \notin visible'
               /\ activeComposite' # a

\* An undisturbed openComposite that went through doOpenComposite ends with
\* its composite active and visible, set visible after every "closed" and
\* before its one "opened", which comes last.
ActivatedLast ==
    Undisturbed("open") /\ lastReturn.token # 0 /\ lastReturn.value.kind = "value"
    => LET c == lastReturn.value.composite IN
       /\ c # Null
       /\ activeComposite = c
       /\ visible = {c}
       /\ Places("opened") = {Len(trace)}
       /\ trace[Len(trace)] = Ev("opened", c)
       /\ \E i \in Places("setVisible(true)") :
             /\ trace[i].c = c
             /\ \A j \in Places("closed") \cup Places("setVisible(false)") : j < i

\* C1: in every state at most one composite is visible and it is the active
\* one; openComposite(b) called while another composite a is active sets a
\* invisible and fires "closed" for a before it sets b visible and fires
\* "opened" for b.
C1_ExclusiveActivation == []ExclusiveActive /\ []ActivatedLast /\ [][HidesBeforeShowing]_vars

\* C1's case: openComposite("b") returned b after closing the active a.
C1_Witness ==
    /\ Undisturbed("open")
    /\ lastReturn.id = "b"
    /\ activeComposite.id = "b"
    /\ Len(trace) > 3
    /\ trace[3].ev = "closed" /\ trace[3].c.id = "a"
    /\ trace[Len(trace)].ev = "opened"

\* The outermost openComposite(a) saw exactly one call back into the part,
\* from a's factory: an openComposite(b), b another id, that ran to its end
\* undisturbed and returned b.
SupersededInFactory ==
    /\ stack = <<>>
    /\ lastReturn.op = "open"
    /\ Len(lastReturn.nested) = 1
    /\ lastReturn.nested[1].pc = "instantiate"
    /\ lastReturn.nested[1].op = "open"
    /\ lastReturn.nested[1].id # lastReturn.id
    /\ lastReturn.nested[1].clean
    /\ lastReturn.nested[1].value.kind = "value"
    /\ lastReturn.nested[1].value.composite # Null

\* C2: when openComposite(b) runs to its end inside the factory call of an
\* openComposite(a), a # b, then once both have returned b is active, a is
\* not visible, the one "opened" fired is b's, and openComposite(a)
\* returned undefined.
C2_SupersededInFactory ==
    SupersededInFactory
    => LET b == lastReturn.nested[1].value.composite IN
       /\ activeComposite = b
       /\ \A c \in visible : c.id # lastReturn.id
       /\ Cardinality(Places("opened")) = 1
       /\ \A i \in Places("opened") : trace[i].c = b
       /\ lastReturn.value = Returned(Null)

\* C2's case: a's factory opened b.
C2_Witness ==
    /\ SupersededInFactory
    /\ lastReturn.id = "a"
    /\ lastReturn.value = Returned(Null)
    /\ activeComposite.id = "b"


\* The part and its collaborators are as they were; only the trace may differ.
PartUnchanged ==
    UNCHANGED <<activeComposite, lastActiveCompositeId, instantiatedCompositeItems,
                mapCompositeToCompositeContainer, mapActionsBindingToComposite,
                currentCompositeOpenToken, contentAreaSize, storage, lastId, titleLabel,
                toolBar, attached, visible, created, disposed, titleListeners,
                progressIndicators, compositeSize, titleArea, instanceCount>>

\* An openComposite call saw a call back into the part that opened another
\* composite.
Superseded ==
    /\ lastReturn.op = "open"
    /\ \E i \in 1..Len(lastReturn.nested) :
          /\ lastReturn.nested[i].op = "open"
          /\ lastReturn.nested[i].id # lastReturn.id
          /\ lastReturn.nested[i].value.kind = "value"
          /\ lastReturn.nested[i].value.composite # Null

\* C3: an openComposite call during which a later openComposite opened
\* another composite (from the factory, create() or setVisible(true)) does
\* not focus its composite, fires no "opened" for it and does not return it.
C3_StaleOpenDiscarded ==
    Superseded
    => /\ lastReturn.value.composite = Null
       /\ \A i \in Places("opened") \cup Places("focus") : trace[i].c.id # lastReturn.id

\* C4: openComposite(id) while id's composite is active returns it and
\* changes nothing; it fires nothing, and focuses the composite when asked.
C4_OpenActiveIsNoop ==
    [][\A id \in AllIds, fc \in BOOLEAN :
          /\ activeComposite # Null
          /\ activeComposite.id = id
          /\ OpenComposite(id, fc) \/ OpenCompositeReentrant(id, fc)
          => /\ PartUnchanged
             /\ lastReturn'.op = "open"
             /\ lastReturn'.value = Returned(activeComposite)
             /\ trace' = (IF stack = <<>> THEN <<>> ELSE trace)
                         \o (IF fc THEN <<Ev("focus", activeComposite)>> ELSE <<>>)]_vars

\* C4's case: openComposite(id, true) on the active composite returned.
C4_Witness ==
    /\ Undisturbed("open")
    /\ lastReturn.token = 0
    /\ lastReturn.focus
    /\ lastReturn.value.composite # Null
    /\ lastReturn.value.composite = activeComposite
    /\ trace = <<Ev("focus", activeComposite)>>

\* C5: removeComposite(id) of the active composite returns false and changes
\* nothing: the composite stays active and cached and is not disposed.
C5_RemoveActiveRefused ==
    [][\A id \in AllIds :
          /\ activeComposite # Null
          /\ activeComposite.id = id
          /\ RemoveComposite(id)
          => /\ PartUnchanged
             /\ activeComposite' \notin disposed'
             /\ trace' = <<>>
             /\ lastReturn'.value.kind = "false"]_vars

\* C5's case: the removal of the active composite was refused.
C5_Witness ==
    /\ lastReturn.op = "remove"
    /\ lastReturn.value.kind = "false"
    /\ activeComposite # Null
    /\ activeComposite.id = lastReturn.id
    /\ instantiatedCompositeItems[lastReturn.id] = activeComposite

\* No cached composite is disposed, and what an undisturbed createComposite
\* or openComposite returns is not disposed.
LiveWhenReturned ==
    /\ \A id \in AllIds :
          instantiatedCompositeItems[id] # Null => instantiatedCompositeItems[id] \notin disposed
    /\ (Undisturbed("create") \/ Undisturbed("open")) /\ lastReturn.value.kind = "value"
       => lastReturn.value.composite \notin disposed
    /\ Undisturbed("create") /\ lastReturn.value.kind = "value"
       => lastReturn.value.composite = instantiatedCompositeItems[lastReturn.id]

\* removeComposite of a cached composite that is not active disposes and
\* evicts it.
RemoveEvicts ==
    \A id \in AllIds :
        /\ instantiatedCompositeItems[id] # Null
        /\ ~(activeComposite # Null /\ activeComposite.id = id)
        /\ RemoveComposite(id)
        => /\ lastReturn'.value.kind = "true"
           /\ instantiatedCompositeItems[id] \in disposed'
           /\ instantiatedCompositeItems'[id] = Null

\* createComposite and openComposite of a registered id that is not cached
\* call the factory, for a composite there was not before.
MakesAnew ==
    \A id \in Registered :
        /\ instantiatedCompositeItems[id] = Null
        /\ CreateComposite(id) \/ \E fc \in BOOLEAN : OpenComposite(id, fc)
        => /\ instanceCount' = instanceCount + 1
           /\ trace'[Len(trace')].ev = "instantiate"
           /\ trace'[Len(trace')].c.id = id
           /\ trace'[Len(trace')].c \notin disposed'
           /\ stack'[1].composite = trace'[Len(trace')].c

\* C6: removeComposite(id) of a cached, inactive composite returns true,
\* disposes it and evicts it; the next createComposite(id) or
\* openComposite(id) calls the factory again and gives another instance than
\* the disposed one.
C6_RemoveThenCreateAnew == []LiveWhenReturned /\ [][RemoveEvicts /\ MakesAnew]_vars

\* C6's case: createComposite("a") returned a second instance of a after the
\* first was removed.
C6_Witness ==
    /\ Undisturbed("create")
    /\ lastReturn.id = "a"
    /\ lastReturn.value.kind = "value"
    /\ \E d \in disposed : d.id = "a" /\ d # lastReturn.value.composite
    /\ instantiatedCompositeItems["a"] = lastReturn.value.composite

\* C7: while an id is cached, createComposite(id) and openComposite(id)
\* return the cached instance, and the factory of an id is called at most
\* once between two evictions of the id.
C7_OneInstancePerId ==
    /\ \A i, j \in Places("instantiate") :
          i < j /\ trace[i].c.id = trace[j].c.id
          => \E k \in Places("dispose") : i < k /\ k < j /\ trace[k].c = trace[i].c
    /\ \A id \in AllIds : Cardinality({c \in titleListeners : c.id = id}) <= 1
    /\ (/\ stack = <<>>
        /\ lastReturn.op \in {"open", "create"}
        /\ lastReturn.value.kind = "value"
        /\ lastReturn.value.composite # Null
        /\ instantiatedCompositeItems[lastReturn.id] # Null)
       => lastReturn.value.composite = instantiatedCompositeItems[lastReturn.id]

\* C8: createComposite(id) for an id that is not registered and not cached
\* throws, returns nothing and caches nothing.
C8_UnregisteredThrows ==
    [][\A id \in AllIds :
          /\ ~getComposite(id)
          /\ instantiatedCompositeItems[id] = Null
          /\ CreateComposite(id)
          => /\ lastReturn'.op = "create"
             /\ lastReturn'.value = Thrown
             /\ PartUnchanged
             /\ trace' = <<>>]_vars

\* C8's case: createComposite("zz") threw.
C8_Witness ==
    /\ lastReturn.op = "create"
    /\ lastReturn.id = "zz"
    /\ lastReturn.value = Thrown
    /\ instantiatedCompositeItems["zz"] = Null

\* hideActiveComposite with nothing active changes nothing; with c active
\* it leaves nothing active, c invisible and cached as before, the tool bar
\* empty, one "closed" fired, for c, and returns c.
HideStep ==
    HideActiveComposite
    => IF activeComposite = Null
       THEN /\ PartUnchanged
            /\ trace' = <<>>
            /\ lastReturn'.value = Returned(Null)
       ELSE /\ activeComposite' = Null
            /\ activeComposite \notin visible'
            /\ toolBar' = Null
            /\ trace' = HideEvents(activeComposite)
            /\ lastReturn'.value = Returned(activeComposite)
            /\ instantiatedCompositeItems' = instantiatedCompositeItems
            /\ disposed' = disposed

\* openComposite of a cached id with nothing active takes the cached
\* instance and calls no factory.
ReopenReuses ==
    \A id \in Registered, fc \in BOOLEAN :
        /\ activeComposite = Null
        /\ instantiatedCompositeItems[id] # Null
        /\ OpenComposite(id, fc)
        => /\ instanceCount' = instanceCount
           /\ instantiatedCompositeItems' = instantiatedCompositeItems
           /\ activeComposite' = instantiatedCompositeItems[id]

StoreFollowsLastActive ==
    /\ lastActiveCompositeId # defaultCompositeId => storage = lastActiveCompositeId
    /\ lastActiveCompositeId = defaultCompositeId => storage = NoValue
    /\ storageGet(storage, defaultCompositeId) = lastActiveCompositeId

\* C10: in every state the store holds the last active composite's id under
\* the settings key when it is not the default id and nothing when it is, so
\* that store.get(key, default) is lastActiveCompositeId; hideActiveComposite
\* and removeComposite change neither.
C10_StoredLastActive ==
    /\ []StoreFollowsLastActive
    /\ [][HideActiveComposite \/ (\E id \in AllIds : RemoveComposite(id))
          => UNCHANGED <<storage, lastActiveCompositeId>>]_vars

\* C10's case: the store held "b", the default composite was opened and
\* then hidden.
C10_Witness ==
    /\ lastReturn.op = "hide"
    /\ lastReturn.value.composite # Null
    /\ lastReturn.value.composite.id = defaultCompositeId
    /\ lastActiveCompositeId = defaultCompositeId
    /\ storage = NoValue
    /\ lastId = 2

\* Where a composite is on its way, given the active composite, the disposed
\* composites and those with a live title listener (which createComposite
\* adds when the factory has returned, line 181).
Stage(c, active, gone, listening) ==
    IF c \in gone THEN "Disposed"
    ELSE IF c = active THEN "Active"
    ELSE IF c \in listening THEN "Instantiated"
    ELSE "Uninstantiated"

\* The moves of the life cycle in one step of the part.  A step that
\* instantiates a composite may also activate it, and a step may leave a
\* composite where it is.
Moves ==
    {<<"Uninstantiated", "Instantiated">>, <<"Uninstantiated", "Active">>,
     <<"Instantiated", "Active">>, <<"Active", "Instantiated">>,
     <<"Instantiated", "Disposed">>}
    \cup {<<st, st>> : st \in {"Uninstantiated", "Instantiated", "Active", "Disposed"}}

\* Every composite makes a move of the life cycle.
MovesAlong ==
    \A c \in Instances :
        <<Stage(c, activeComposite, disposed, titleListeners),
          Stage(c, activeComposite', disposed', titleListeners')>> \in Moves

\* The same, but for the composite that is active when dispose() is called.
MovesAlongButAtTeardown ==
    \A c \in Instances :
        \/ <<Stage(c, activeComposite, disposed, titleListeners),
              Stage(c, activeComposite', disposed', titleListeners')>> \in Moves
        \/ c = activeComposite /\ c \in disposed' /\ Dispose

\* No disposed composite is cached.
DisposedEvicted ==
    \A id \in AllIds : instantiatedCompositeItems[id] \notin disposed

\* C11 as stated: every composite moves only along Uninstantiated ->
\* Instantiated -> Active -> Instantiated -> Disposed, whatever is called, so
\* that it is disposed only while it is not active; a disposed composite is
\* not cached and is not the active composite.
C11_LifecycleAsStated ==
    /\ []DisposedEvicted
    /\ [](activeComposite \notin disposed)
    /\ [][MovesAlong]_vars

\* C11, amended: every composite moves only along Uninstantiated ->
\* Instantiated -> Active -> Instantiated -> Disposed, but for the composite
\* that is active when dispose() is called, which dispose() disposes and
\* leaves the active composite; a disposed composite is never cached, and is
\* the active composite only after dispose().
C11_Lifecycle ==
    /\ []DisposedEvicted
    /\ [](activeComposite \in disposed => ~Live)
    /\ [][MovesAlongButAtTeardown]_vars

\* C11's case: one composite was removed, then dispose() found another
\* active and disposed it.
C11_Witness ==
    /\ ~Live
    /\ activeComposite \in disposed
    /\ \E d \in disposed : d # activeComposite /\ d \notin {trace[i].c : i \in 1..Len(trace)}

\* The composites the cache holds.
Cached == {instantiatedCompositeItems[id] : id \in CachedIds}

\* No id has an entry in the map.
Empty(map) == \A id \in AllIds : map[id] = Null

\* C12: dispose() disposes every cached composite and its title listener,
\* each once, and no composite that was disposed before; it leaves the
\* cache, the container map and the action-binding map empty.
C12_TeardownDisposesCached ==
    [][Dispose
       => /\ disposed' = disposed \cup Cached
          /\ titleListeners' = titleListeners \ Cached
          /\ Len(trace') = Cardinality(Cached)
          /\ {trace'[i] : i \in 1..Len(trace')} = {Ev("dispose", c) : c \in Cached}
          /\ \A i \in 1..Len(trace') : trace'[i].c \notin disposed
          /\ Empty(instantiatedCompositeItems')
          /\ Empty(mapCompositeToCompositeContainer')
          /\ Empty(mapActionsBindingToComposite')]_vars

\* C12's case: dispose() disposed the one cached composite, which had a
\* container and a binding, and not the composite removed before.
C12_Witness ==
    /\ ~Live
    /\ Len(trace) = 1
    /\ trace[1].ev = "dispose"
    /\ trace[1].c \in created
    /\ trace[1].c \notin titleListeners
    /\ Cardinality(disposed) = 2

\* C13: removeComposite(id) of a cached, inactive composite returns true and
\* leaves nothing of the composite with the part: the composite and its
\* title listener are disposed, and its container, its action binding and
\* its progress indicator are released.
C13_RemoveReleasesAll ==
    [][\A id \in AllIds :
          /\ instantiatedCompositeItems[id] # Null
          /\ ~(activeComposite # Null /\ activeComposite.id = id)
          /\ RemoveComposite(id)
          => LET c == instantiatedCompositeItems[id] IN
             /\ lastReturn'.value.kind = "true"
             /\ c \in disposed'
             /\ c \notin titleListeners'
             /\ instantiatedCompositeItems'[id] = Null
             /\ mapCompositeToCompositeContainer'[id] = Null
             /\ mapActionsBindingToComposite'[id] = Null
             /\ c \notin progressIndicators']_vars

\* The binding a collection of composite c's actions gives once its title
\* area is `area`.
BindingOf(c, area) == [composite |-> c, actions |-> area]

\* A title-area update from the active composite shows its title and
\* collects, caches and applies its actions; one from a cached composite
\* that is not active leaves the title and the tool bar and drops the id's
\* cached binding.
TitleAreaUpdateStep ==
    \A c \in Instances, area \in TitleAreas :
        TitleAreaUpdate(c, area)
        => IF c = activeComposite
           THEN /\ titleLabel' = Title(c.id, area)
                /\ mapActionsBindingToComposite'[c.id] = BindingOf(c, area)
                /\ toolBar' = BindingOf(c, area)
           ELSE instantiatedCompositeItems[c.id] = c
                => /\ titleLabel' = titleLabel
                   /\ toolBar' = toolBar
                   /\ mapActionsBindingToComposite'[c.id] = Null

\* A step that shows a composite sets into the tool bar the actions the
\* composite has then, collected anew or by a binding that is not older than
\* the composite's last update.
ActivationTakesActions ==
    \A c \in visible' \ visible : toolBar' = BindingOf(c, titleArea'[c])

\* C14: a title-area update from a cached composite that is not active
\* changes neither the title shown nor the tool bar and removes the
\* composite's cached binding, so that its next activation sets the actions
\* it has then and not those of the old binding; one from the active
\* composite shows its title and collects, caches and applies its actions.
C14_TitleAreaUpdate == [][TitleAreaUpdateStep /\ ActivationTakesActions]_vars

\* The places of a tree: the sequences of child numbers, and the value and
\* the dot-joined keys each leads to (Undefined where there is no such child).
TreePlaces == UNION {[1..n -> 1..MaxEntries] : n \in 1..MaxEntries}
RECURSIVE Child(_, _)
Child(value, at) ==
    IF at = <<>> THEN value
    ELSE IF value.t = "object" /\ Head(at) <= Len(value.kv)
    THEN Child(value.kv[Head(at)][2], Tail(at))
    ELSE Undefined
RECURSIVE PathName(_, _)
PathName(value, at) ==
    LET key == value.kv[Head(at)][1] IN
    IF Tail(at) = <<>> THEN key
    ELSE key \o <<Dot>> \o PathName(value.kv[Head(at)][2], Tail(at))

\* The leaves of a tree: the places of the values that are no objects.
Leaves(value) == {at \in TreePlaces : Child(value, at) # Undefined /\ Child(value, at).t # "object"}

\* Place p comes before place q in a depth-first traversal.
Before(p, q) ==
    \E i \in 1..Len(p) :
        /\ i <= Len(q)
        /\ p[i] < q[i]
        /\ \A j \in 1..(i - 1) : p[j] = q[j]

\* C15: flattenKeys of a tree returns the dot-joined path of each of its
\* leaves once, in depth-first order, and nothing else; of an empty tree, of
\* null and of undefined it returns the empty list.
C15_FlattenKeysLeaves ==
    flatOut.fn = "flattenKeys"
    => /\ tree \in {Undefined, JsNull} => flatOut.result = Ok(<<>>)
       /\ tree.t = "object"
          => /\ flatOut.result.status = "return"
             /\ Len(flatOut.result.value) = Cardinality(Leaves(tree))
             /\ \A p \in Leaves(tree) :
                   flatOut.result.value[1 + Cardinality({q \in Leaves(tree) : Before(q, p)})]
                       = PathName(tree, p)

\* C15's case: flattenKeys({a: {b: 1}, b: []}) gave [a.b, b].
C15_Witness ==
    /\ flatOut.fn = "flattenKeys"
    /\ tree = Object(<< <<Str("a"), Object(<< <<Str("b"), Number(1)>> >>)>>,
                       <<Str("b"), Array(<<>>)>> >>)
    /\ flatOut.result = Ok(<<DotJoin(Str("a"), Str("b")), Str("b")>>)

\* The keys a dotted name is made of: those that give it when joined by dots.
RECURSIVE Joined(_)
Joined(keys) ==
    IF Len(keys) = 1 THEN keys[1]
    ELSE keys[1] \o <<Dot>> \o Joined(Tail(keys))
Segments(name) == CHOOSE keys \in KeyPaths \ {<<>>} : Joined(keys) = name

\* The names of a whitelist that lead to a value in the tree, by their place
\* in the whitelist.
Hits(value, names) == {i \in 1..Len(names) : At(value, Segments(names[i])) # Undefined}

\* C16: flattenValues(tree, whitelist) returns one mapping {name: value} for
\* each name of the whitelist whose segments lead to a value in the tree,
\* with that value, in the order of the whitelist, and nothing else: a name
\* with a missing key or with a value on its way that is no object is left
\* out.
C16_FlattenValuesWhitelisted ==
    flatOut.fn = "flattenValues" /\ isArray(flatOut.keys)
    => LET names == flatOut.keys.kv
           hits == Hits(tree, names)
       IN  /\ flatOut.result.status = "return"
           /\ Len(flatOut.result.value) = Cardinality(hits)
           /\ \A i \in hits :
                 flatOut.result.value[Cardinality({j \in hits : j <= i})]
                     = Object(<< <<names[i], At(tree, Segments(names[i]))>> >>)

\* C16's case: flattenValues({a: {b: 1}, b: []}, [b.a, a.b]) gave [{a.b: 1}].
C16_Witness ==
    /\ flatOut.fn = "flattenValues"
    /\ tree = Object(<< <<Str("a"), Object(<< <<Str("b"), Number(1)>> >>)>>,
                       <<Str("b"), Array(<<>>)>> >>)
    /\ flatOut.keys = Array(<<DotJoin(Str("b"), Str("a")), DotJoin(Str("a"), Str("b"))>>)
    /\ flatOut.result = Ok(<<Object(<< <<DotJoin(Str("a"), Str("b")), Number(1)>> >>)>>)

\* The string starts with the symbols of `prefix`.
StartsWith(str, prefix) ==
    Len(str) >= Len(prefix) /\ SubSeq(str, 1, Len(prefix)) = prefix

\* A key LogAppender is to hold back.
HeldBack(key) ==
    \/ key = Str("sessionID")
    \/ key = Str("version")
    \/ key = Str("timestamp")
    \/ key = Str("commitHash")
    \/ StartsWith(key, <<"common", Dot>>)

\* The entries of an object.
EntriesIn(object) == {object.kv[i] : i \in 1..Len(object.kv)}

\* C17: LogAppender.log(eventName, data) gives the underlying log, under
\* telemetry/eventName, exactly the entries of data whose key is none of
\* sessionID, version, timestamp, commitHash and does not start with
\* "common.", each once and with its value, and leaves data as it was.
C17_LogAppenderStrips ==
    logged.fn = "log" /\ logged.keys.t = "object"
    => /\ logged.result.status = "return"
       /\ logged.result.value.message = <<"telemetry/", logged.eventName>>
       /\ EntriesIn(logged.result.value.strippedData)
              = {entry \in EntriesIn(logged.keys) : ~HeldBack(entry[1])}
       /\ Len(logged.result.value.strippedData.kv)
              = Cardinality(EntriesIn(logged.result.value.strippedData))
       /\ logData = logged.keys

\* C17's case: log of {sessionID: "x", foo: 1} forwarded {foo: 1}.
C17_Witness ==
    /\ logged.fn = "log"
    /\ logData = Object(<< <<Str("sessionID"), String(Str("x"))>>, <<Str("foo"), Number(1)>> >>)
    /\ logged.result.value.strippedData = Object(<< <<Str("foo"), Number(1)>> >>)

\* log(e, d) of the combined appender calls log(e, d) of every appender
\* once, the first argument's first.
FansOut ==
    \A e \in LogEvents, d \in SinkData :
        CombinedLog(e, d)
        => /\ Len(sinks') = Len(sinks)
           /\ \A i \in 1..Len(sinks) : sinks'[i].logs = Append(sinks[i].logs, <<e, d>>)
           /\ Len(sinkCalls') = Len(sinks)
           /\ \A i \in 1..Len(sinks) : sinkCalls'[i] = [appender |-> i, e |-> e, d |-> d]

\* Once dispose() of the combined appender was called, dispose() of every
\* appender was, and the promise it returned is resolved only when the
\* result of each is (a result that is no promise has nothing to wait for).
WaitsForAll ==
    /\ combined # "none" => \A i \in 1..Len(sinks) : sinks[i].disposal # "none"
    /\ combined = "resolved"
       => \A i \in 1..Len(sinks) : sinks[i].disposal \in {"resolved", "undefined"}

\* C18: log(e, d) of combinedAppender(s1..sn) calls log(e, d) once on every
\* sink, in the order of the arguments, and the promise its dispose()
\* returns resolves only after the dispose result of every sink has.
C18_CombinedAppender == []WaitsForAll /\ [][FansOut]_vars

\* C18's case: two sinks got an event one after the other, were disposed and
\* both their promises resolved before the combined one did.
C18_Witness ==
    /\ Len(sinks) = 2
    /\ Len(sinkCalls) = 2
    /\ sinkCalls[1].appender = 1
    /\ \A i \in 1..2 : sinks[i].disposal = "resolved" /\ Len(sinks[i].logs) = 1
    /\ combined = "resolved"

\* C19: flattenKeys, flattenValues and LogAppender.log raise no error,
\* whatever they are given, and give an empty result for a tree that is no
\* object, for a whitelist that is none and for data that is none.
C19_TelemetryTotal ==
    /\ flatOut.result.status = "return"
    /\ logged.result.status = "return"
    /\ flatOut.fn = "flattenKeys" /\ tree.t # "object" => flatOut.result.value = <<>>
    /\ flatOut.fn = "flattenValues" /\ (tree.t # "object" \/ ~isArray(flatOut.keys))
       => flatOut.result.value = <<>>
    /\ logged.fn = "log" /\ logged.keys.t # "object"
       => logged.result.value.strippedData = Object(<<>>)

\* The two events of a configuration change, with the source's tag, the key
\* paths of the changed tree and its whitelisted values.
ConfigurationEvents ==
    LET tag == ConfigurationTargetToString(published.event.source) IN
    /\ Len(published.events) = 2
    /\ published.events[1] =
           [eventName |-> "updateConfiguration",
            data |-> [configurationSource |-> tag,
                      configurationKeys |-> flattenKeys(published.event.sourceConfig).value]]
    /\ published.events[2] =
           [eventName |-> "updateConfigurationValues",
            data |-> [configurationSource |-> tag,
                      configurationValues |->
                          flattenValues(published.event.sourceConfig,
                                        configurationValueWhitelist).value]]

\* The one event of a keybinding change.
KeybindingEvents ==
    /\ Len(published.events) = 1
    /\ published.events[1].eventName = "updateKeybindings"

\* C20 as stated: every configuration change makes the listener publish
\* updateConfiguration and then updateConfigurationValues, both with the
\* tag of the change's source; every keybinding change of source User makes
\* it publish one updateKeybindings, and one of another source nothing.
C20_PublishedAsStated ==
    /\ published.kind = "configuration" => ConfigurationEvents
    /\ published.kind = "keybindings"
       => IF published.event.source = KeybindingSource.User
          THEN KeybindingEvents
          ELSE published.events = <<>>

\* C20, amended: a configuration change whose source is not DEFAULT makes the
\* listener publish updateConfiguration and then updateConfigurationValues,
\* both with the tag of the source, and one whose source is DEFAULT nothing;
\* a keybinding change of source User that carries a list of keybindings
\* makes it publish one updateKeybindings with one record for each (its key,
\* command and when clause, and whether it has arguments), and any other
\* keybinding change nothing.
C20_Published ==
    /\ published.kind = "configuration"
       => IF published.event.source # ConfigurationTarget.DEFAULT
          THEN ConfigurationEvents
          ELSE published.events = <<>>
    /\ published.kind = "keybindings"
       => IF published.event.source = KeybindingSource.User
             /\ isArray(published.event.keybindings)
          THEN /\ KeybindingEvents
               /\ Len(published.events[1].data.bindings) = Len(published.event.keybindings.kv)
               /\ \A i \in 1..Len(published.event.keybindings.kv) :
                     LET binding == published.event.keybindings.kv[i]
                         record == published.events[1].data.bindings[i]
                     IN  /\ record.key = binding.key
                         /\ record.command = binding.command
                         /\ record.when = binding.when
                         /\ record.args = (IF binding.args = Undefined THEN Undefined ELSE True)
          ELSE published.events = <<>>

\* C20's case: a change of the workspace configuration {a: {b: 1}} was
\* published as two events, with the key path and the whitelisted value.
C20_Witness ==
    /\ published.kind = "configuration"
    /\ published.event.source = ConfigurationTarget.WORKSPACE
    /\ Len(published.events) = 2
    /\ published.events[1].data.configurationKeys = <<DotJoin(Str("a"), Str("b"))>>
    /\ published.events[2].data.configurationValues
           = <<Object(<< <<DotJoin(Str("a"), Str("b")), Number(1)>> >>)>>
    /\ published.events[2].data.configurationSource = "WORKSPACE"


\* The composites the step calls layout() on, counted in the trace.
LaidOut(tr) == {tr[i].c : i \in {j \in 1..Len(tr) : tr[j].ev = "layout"}}

\* A composite that is active when no call is in flight was laid out last
\* with the content area's size, once there is one.
ActiveFitsContentArea ==
    stack = <<>> /\ activeComposite # Null /\ contentAreaSize # NoSize
    => compositeSize[activeComposite] = contentAreaSize

\* The same of every state, those within a call of openComposite included.
ActiveFitsContentAreaAlways ==
    activeComposite # Null /\ contentAreaSize # NoSize
    => compositeSize[activeComposite] = contentAreaSize

\* layout(w, h) sets the content area's size to what layoutContents gives
\* and hands it to the active composite and to no other.
LayoutForwards ==
    \A width \in Widths, height \in ResizedHeights :
        Layout(width, height)
        => /\ contentAreaSize' = layoutContents(width, height)
           /\ \A c \in Instances :
                 IF c = activeComposite
                 THEN compositeSize'[c] = contentAreaSize'
                 ELSE compositeSize'[c] = compositeSize[c]
           /\ LaidOut(trace') = {activeComposite} \ {Null}

\* No step changes the size a composite was laid out with last unless the
\* composite is the active one after the step.
OnlyActiveLaidOut ==
    \A c \in Instances :
        compositeSize'[c] # compositeSize[c] => c = activeComposite'

\* C21, as it is stated: in every state where a composite is active and
\* layout was called, the size the composite got last is the content area's.
C21_LayoutAsStated == ActiveFitsContentAreaAlways

\* C21: layout(w, h) recomputes the content area's size and forwards it to
\* the active composite only; whenever no call of the part is in flight, a
\* composite is active and layout was called, the size that composite got
\* last is the content area's size; no inactive composite is laid out.
C21_Layout ==
    /\ []ActiveFitsContentArea
    /\ [][LayoutForwards /\ OnlyActiveLaidOut]_vars

\* C21's case: a was active at one size, was hidden, the part was resized,
\* and a, active again, has the new size.
C21_Witness ==
    /\ Undisturbed("open")
    /\ activeComposite # Null
    /\ activeComposite.id = "a"
    /\ lastReturn.token = 2
    /\ instanceCount = 1
    /\ contentAreaSize = layoutContents(3, 4)
    /\ compositeSize[activeComposite] = contentAreaSize
    /\ Places("layout") # {}

\* C22: in every state the active composite, when there is one, is the
\* instance the cache holds under its id, and it was not disposed.
C22_ActiveIsCached ==
    activeComposite # Null
    => /\ instantiatedCompositeItems[activeComposite.id] = activeComposite
       /\ activeComposite \notin disposed

\* The places of a trace that hold event `what` for composite c.
PlacesOf(tr, what, c) == {i \in 1..Len(tr) : tr[i] = Ev(what, c)}

\* No call of the part has returned yet: the trace is all the part ever did.
FirstCall == lastReturn = NoCall

\* Every "closed" for c comes after an "opened" for c with no "closed" for c
\* in between, in a trace that starts with nothing opened.
ClosedAfterOpened(tr) ==
    \A c \in Instances :
        \A i \in PlacesOf(tr, "closed", c) :
            \E j \in PlacesOf(tr, "opened", c) :
                /\ j < i
                /\ \A k \in PlacesOf(tr, "closed", c) : ~(j < k /\ k < i)

\* Between an "opened" for c and a later "opened" for another composite
\* there is a "closed" for c.
OpenedApart(tr) ==
    \A c, d \in Instances :
        \A i \in PlacesOf(tr, "opened", c), j \in PlacesOf(tr, "opened", d) :
            c # d /\ i < j => \E k \in PlacesOf(tr, "closed", c) : i < k /\ k < j

\* A step fires "opened" only for the composite that is active.
OpenedWhileActive ==
    LET n == IF stack = <<>> THEN 0 ELSE Len(trace) IN
    \A i \in (n + 1)..Len(trace') :
        trace'[i].ev = "opened" => trace'[i].c = activeComposite'

\* C23: the notifications are well bracketed: a "closed" for c comes only
\* after an "opened" for c that was not closed yet, an "opened" for c is
\* fired only while c is the active composite, and between two "opened" for
\* different composites there is a "closed" for the first.
C23_WellBracketed ==
    /\ [](FirstCall => ClosedAfterOpened(trace))
    /\ []OpenedApart(trace)
    /\ [][OpenedWhileActive]_vars

\* What a step that is a call of openComposite(id) for an unregistered id,
\* made while composite a is active, leaves behind: the error, nothing
\* active, a hidden with its "closed" out and no "opened", a new token, and
\* the last active id, the store and the cache as they were.
ThrowsAfterHiding(id, a) ==
    LET n == IF stack = <<>> THEN 0 ELSE Len(trace)
        fired == SubSeq(trace', n + 1, Len(trace'))
    IN  /\ lastReturn'.value = Thrown
        /\ activeComposite' = Null
        /\ a \notin visible'
        /\ PlacesOf(fired, "closed", a) # {}
        /\ \A i \in 1..Len(fired) : fired[i].ev # "opened"
        /\ lastId' = lastId + 1
        /\ currentCompositeOpenToken' = lastId'
        /\ currentCompositeOpenToken' # currentCompositeOpenToken
        /\ lastActiveCompositeId' = lastActiveCompositeId
        /\ storage' = storage
        /\ instantiatedCompositeItems' = instantiatedCompositeItems

\* C24: openComposite(id) for an unregistered id, called while a composite a
\* is active, by a caller of the part or by a composite from a callback,
\* throws after a was hidden: nothing is active, "closed" was fired for a and
\* no "opened", a new token is the current one, and the last active id, the
\* store and the cache are unchanged.
C24_UnregisteredOpenHidesFirst ==
    [][\A id \in Unregistered, focus \in BOOLEAN :
          /\ activeComposite # Null
          /\ OpenComposite(id, focus) \/ OpenCompositeReentrant(id, focus)
          => ThrowsAfterHiding(id, activeComposite)]_vars

\* C24's case: a was opened and active, openComposite("zz") threw, and a's
\* "closed" is all the part fired.
C24_Witness ==
    /\ stack = <<>>
    /\ lastReturn.op = "open"
    /\ lastReturn.id = "zz"
    /\ lastReturn.value = Thrown
    /\ lastReturn.depth = 1
    /\ activeComposite = Null
    /\ lastActiveCompositeId = "a"
    /\ instantiatedCompositeItems["a"] # Null
    /\ PlacesOf(trace, "closed", instantiatedCompositeItems["a"]) # {}
    /\ Places("opened") = {}
    /\ currentCompositeOpenToken = 2

=============================================================================
